---- MODULE Spec2Model ----
(***************************************************************************)
(* Identity resolution service (src/src/index.ts): the contact table, the  *)
(* POST /identify handler, the DELETE /contacts/:id and DELETE /contacts   *)
(* handlers, modelled statement by statement.  A handler is a sequence of  *)
(* store statements (each `await client.query`), every statement followed  *)
(* by the JavaScript that runs until the next statement is issued.         *)
(***************************************************************************)
EXTENDS Integers, Sequences, FiniteSets, TLC

VARIABLES table, now, failed, loc

vars == <<table, now, failed, loc>>

----------------------------------------------------------------------------
(* Bounds of the model *)

MaxRecords == 3
MaxTime == 1

Emails == {"A", "B"}
Phones == {"P", "Q"}

(* JavaScript undefined (a field left out of the request body) and SQL NULL *)
UNDEF == "undefined"
NULL == "NULL"
NullId == 0
NullTime == -1

EmailInputs == Emails \cup {UNDEF}
PhoneInputs == Phones \cup {UNDEF}

Procs == {1, 2}

----------------------------------------------------------------------------
(* Values *)

\* !v of JavaScript, for the values the model draws
Falsy(v) == v \in {UNDEF, NULL, ""}

\* node-postgres sends an undefined parameter as NULL
SqlParam(v) == IF v = UNDEF THEN NULL ELSE v

\* col = $n of SQL: NULL on either side is not a match
SqlEq(col, param) == col # NULL /\ param # NULL /\ col = param

\* a === b of JavaScript: null and undefined are different values
StrictEq(a, b) == a = b

Range(s) == {s[i] : i \in 1..Len(s)}

\* the orders in which a SELECT without ORDER BY may return a set of rows
Orderings(S) ==
  {s \in [1..Cardinality(S) -> S] : \A i, j \in 1..Cardinality(S) : i # j => s[i] # s[j]}

IsPrimary(c) == c.linkprecedence = "primary"
IsSecondary(c) == c.linkprecedence = "secondary"
IsActive(c) == c.deletedat = NullTime

----------------------------------------------------------------------------
(* Store statements *)

\* INSERT INTO contact (email, phonenumber, linkprecedence[, linkedid]) RETURNING *
NewRow(t, clock, email, phone, prec, linked) ==
  [id |-> Len(t) + 1, email |-> SqlParam(email), phonenumber |-> SqlParam(phone),
   linkedid |-> linked, linkprecedence |-> prec,
   createdat |-> clock, updatedat |-> clock, deletedat |-> NullTime]

InsertRow(t, clock, email, phone, prec, linked) ==
  Append(t, NewRow(t, clock, email, phone, prec, linked))

\* the candidate query without its deletedat filter
CandidateRows_WithDeleted(t, email, phone) ==
  {t[i] : i \in {j \in 1..Len(t) :
      SqlEq(t[j].email, SqlParam(email)) \/ SqlEq(t[j].phonenumber, SqlParam(phone))}}

\* SELECT * FROM contact WHERE (email = $1 OR phonenumber = $2) AND deletedat IS NULL
CandidateRows(t, email, phone) ==
  {t[i] : i \in {j \in 1..Len(t) :
      /\ SqlEq(t[j].email, SqlParam(email)) \/ SqlEq(t[j].phonenumber, SqlParam(phone))
      /\ t[j].deletedat = NullTime}}

\* the demotion writing the link only
DemoteRow_LinkOnly(t, clock, finalId, demotedId) ==
  [i \in 1..Len(t) |->
     IF t[i].id = demotedId
     THEN [t[i] EXCEPT !.linkedid = finalId, !.updatedat = clock]
     ELSE t[i]]

\* UPDATE contact SET linkprecedence = 'secondary', linkedid = $1, updatedat = NOW() WHERE id = $2
DemoteRow(t, clock, finalId, demotedId) ==
  [i \in 1..Len(t) |->
     IF t[i].id = demotedId
     THEN [t[i] EXCEPT !.linkprecedence = "secondary", !.linkedid = finalId, !.updatedat = clock]
     ELSE t[i]]

\* the merge without the second UPDATE
RelinkRows_Skipped(t, clock, finalId, demotedId) == t

\* UPDATE contact SET linkedid = $1, updatedat = NOW() WHERE linkedid = $2
RelinkRows(t, clock, finalId, demotedId) ==
  [i \in 1..Len(t) |->
     IF t[i].linkedid # NullId /\ t[i].linkedid = demotedId
     THEN [t[i] EXCEPT !.linkedid = finalId, !.updatedat = clock]
     ELSE t[i]]

\* SELECT * FROM contact WHERE id = $1 OR linkedid = $1
ClusterRows(t, finalId) ==
  {t[i] : i \in {j \in 1..Len(t) : t[j].id = finalId \/ t[j].linkedid = finalId}}

----------------------------------------------------------------------------
(* JavaScript of the identify handler *)

\* the primaries ordered from the newest to the oldest
SortByCreatedat_NewestFirst(s) ==
  CHOOSE r \in Orderings(Range(s)) :
    \A i, j \in 1..Len(r) : i < j => r[i].createdat >= r[j].createdat

\* the primaries left in the order the store returned them
SortByCreatedat_Unsorted(s) == s

\* Array.prototype.sort by createdat: stable, so ties keep the order of the rows.
\* The comparator reads new Date(createdat).getTime(): the clock of the model
\* counts in the milliseconds the comparator sees
RECURSIVE SortByCreatedat(_)
SortByCreatedat(s) ==
  IF Len(s) <= 1 THEN s
  ELSE LET front == SortByCreatedat(SubSeq(s, 1, Len(s) - 1))
           r == s[Len(s)]
           k == Cardinality({i \in 1..Len(front) : front[i].createdat <= r.createdat})
       IN SubSeq(front, 1, k) \o <<r>> \o SubSeq(front, k + 1, Len(front))

\* the input email always taken as new
EmailExists_Never(contacts, email) == FALSE

\* contacts.some(c => c.email === email)
EmailExists(contacts, email) == \E i \in 1..Len(contacts) : StrictEq(contacts[i].email, email)

\* contacts.some(c => c.phonenumber === phoneNumber)
PhoneExists(contacts, phone) == \E i \in 1..Len(contacts) : StrictEq(contacts[i].phonenumber, phone)

HasPrimary(contacts) == \E i \in 1..Len(contacts) : IsPrimary(contacts[i])

\* contacts.find(c => c.linkprecedence === "primary")
FindPrimary(contacts) ==
  contacts[CHOOSE i \in 1..Len(contacts) :
             /\ IsPrimary(contacts[i])
             /\ \A j \in 1..(i - 1) : ~IsPrimary(contacts[j])]

\* Array.from(new Set(xs)): first occurrences, in order
RECURSIVE Dedup(_)
Dedup(s) ==
  IF s = <<>> THEN <<>>
  ELSE LET d == Dedup(SubSeq(s, 1, Len(s) - 1))
       IN IF s[Len(s)] \in Range(d) THEN d ELSE Append(d, s[Len(s)])

Truthy(v) == ~Falsy(v)

NoView == [primaryContactId |-> NullId, emails |-> <<>>, phoneNumbers |-> <<>>,
           secondaryContactIds |-> <<>>]

\* buildResponse(contacts); called only where a primary is among the contacts
buildResponse(contacts) ==
  LET primary == FindPrimary(contacts)
      emails == Dedup(SelectSeq([i \in 1..Len(contacts) |-> contacts[i].email], Truthy))
      phoneNumbers == Dedup(SelectSeq([i \in 1..Len(contacts) |-> contacts[i].phonenumber], Truthy))
      secondaries == SelectSeq(contacts, IsSecondary)
      secondaryIds == [i \in 1..Len(secondaries) |-> secondaries[i].id]
  IN [primaryContactId |-> primary.id, emails |-> emails, phoneNumbers |-> phoneNumbers,
      secondaryContactIds |-> secondaryIds]

----------------------------------------------------------------------------
(* A request in flight: the handler's position and its local variables *)

IdleLoc ==
  [pc |-> "idle", op |-> "none", email |-> UNDEF, phone |-> UNDEF, id |-> NullId,
   contacts |-> <<>>, primaries |-> <<>>, finalPrimary |-> NullId, toDemote |-> <<>>,
   status |-> 0, view |-> NoView, count |-> 0, thrown |-> FALSE]

\* the response is sent; of the locals, the request and the ids of the primaries it
\* set out to merge are kept for the properties, the others are dropped
Done(l, status) == [IdleLoc EXCEPT !.pc = "done", !.op = l.op, !.email = l.email,
                                   !.phone = l.phone, !.id = l.id, !.status = status,
                                   !.primaries = l.primaries]

\* res.json(buildResponse(contacts)); a cluster without primary throws, caught as 500
Respond(l, contacts) ==
  IF HasPrimary(contacts)
  THEN [Done(l, 200) EXCEPT !.view = buildResponse(contacts)]
  ELSE Done(l, 500)

\* const { email, phoneNumber } = req.body; the 400 guard; pool.connect()
IdentifyStart(email, phone) ==
  LET l == [IdleLoc EXCEPT !.op = "identify", !.email = email, !.phone = phone]
  IN IF Falsy(email) /\ Falsy(phone) THEN Done(l, 400) ELSE [l EXCEPT !.pc = "fetch"]

\* step 4 up to the INSERT: primary.id of a missing primary throws, caught as 500
AfterRows(l, contacts) ==
  IF ~EmailExists(contacts, l.email) \/ ~PhoneExists(contacts, l.phone)
  THEN IF HasPrimary(contacts)
       THEN [l EXCEPT !.pc = "insertSecondary", !.contacts = contacts]
       ELSE Done(l, 500)
  ELSE Respond(l, contacts)

\* steps 2 and 3 up to the next statement; on the merge path contacts is not read
\* again before the re-fetch overwrites it, so the rows are not kept
AfterFetch(l, rows) ==
  IF Len(rows) = 0 THEN [l EXCEPT !.pc = "insertPrimary"]
  ELSE LET primaries == SelectSeq(rows, IsPrimary)
       IN IF Len(primaries) > 1
          THEN LET sorted == SortByCreatedat(primaries)
               IN [l EXCEPT !.pc = "demote",
                            !.primaries = [i \in 1..Len(sorted) |-> sorted[i].id],
                            !.finalPrimary = sorted[1].id,
                            !.toDemote = [i \in 1..(Len(sorted) - 1) |-> sorted[i + 1].id]]
          ELSE AfterRows(l, rows)

Cfg(t, l) == [table |-> t, loc |-> l]

FetchStmt(t, l) ==
  {Cfg(t, AfterFetch(l, rows)) : rows \in Orderings(CandidateRows(t, l.email, l.phone))}

InsertPrimaryStmt(t, clock, l) ==
  IF Len(t) >= MaxRecords THEN {}
  ELSE {Cfg(InsertRow(t, clock, l.email, l.phone, "primary", NullId),
            Respond(l, <<NewRow(t, clock, l.email, l.phone, "primary", NullId)>>))}

DemoteStmt(t, clock, l) ==
  {Cfg(DemoteRow(t, clock, l.finalPrimary, Head(l.toDemote)), [l EXCEPT !.pc = "relink"])}

RelinkStmt(t, clock, l) ==
  {Cfg(RelinkRows(t, clock, l.finalPrimary, Head(l.toDemote)),
       [l EXCEPT !.toDemote = Tail(l.toDemote),
                 !.pc = IF Tail(l.toDemote) = <<>> THEN "refetch" ELSE "demote"])}

RefetchStmt(t, l) ==
  {Cfg(t, AfterRows(l, rows)) : rows \in Orderings(ClusterRows(t, l.finalPrimary))}

InsertSecondaryStmt(t, clock, l) ==
  IF Len(t) >= MaxRecords THEN {}
  ELSE LET row == NewRow(t, clock, l.email, l.phone, "secondary", FindPrimary(l.contacts).id)
       IN {Cfg(Append(t, row), Respond(l, Append(l.contacts, row)))}

----------------------------------------------------------------------------
(* DELETE /contacts/:id, DELETE /contacts, GET /contacts *)

\* parseInt(id), the 400 guard, pool.connect()
DeleteOneStart(isNumber, id) ==
  LET l == [IdleLoc EXCEPT !.op = "deleteOne", !.id = id]
  IN IF ~isNumber THEN Done(l, 400) ELSE [l EXCEPT !.pc = "delSelect"]

\* SELECT * FROM contact WHERE id = $1 AND deletedat IS NULL, and the branch on the row
DelSelectStmt(t, l) ==
  LET rows == {i \in 1..Len(t) : t[i].id = l.id /\ t[i].deletedat = NullTime}
  IN IF rows = {} THEN {Cfg(t, Done(l, 404))}
     ELSE LET contact == t[CHOOSE i \in rows : TRUE]
          IN {Cfg(t, [l EXCEPT !.contacts = <<contact>>, !.pc =
                 IF contact.linkprecedence = "primary" THEN "delCascade"
                 ELSE IF contact.linkprecedence = "secondary" /\ contact.linkedid # NullId
                      THEN "delRemaining"
                      ELSE "delTarget"])}

\* the primary branch without its UPDATE
DelCascadeStmt_Skipped(t, clock, l) == {Cfg(t, [l EXCEPT !.pc = "delTarget"])}

\* UPDATE contact SET deletedat = NOW(), updatedat = NOW() WHERE linkedid = $1 AND deletedat IS NULL
DelCascadeStmt(t, clock, l) ==
  {Cfg([i \in 1..Len(t) |->
          IF t[i].linkedid # NullId /\ t[i].linkedid = l.id /\ t[i].deletedat = NullTime
          THEN [t[i] EXCEPT !.deletedat = clock, !.updatedat = clock]
          ELSE t[i]],
       [l EXCEPT !.pc = "delTarget",
                 !.count = Cardinality({i \in 1..Len(t) :
                    t[i].linkedid # NullId /\ t[i].linkedid = l.id /\ t[i].deletedat = NullTime})])}

\* SELECT * FROM contact WHERE linkedid = $1 AND id != $2 AND deletedat IS NULL ORDER BY createdat
RemainingRows(t, l) ==
  {i \in 1..Len(t) :
     t[i].linkedid = l.contacts[1].linkedid /\ t[i].id # l.id /\ t[i].deletedat = NullTime}

\* the remaining secondaries promoted in place of the deleted one
DelRemainingStmt_Promote(t, l) ==
  {Cfg([i \in 1..Len(t) |->
          IF i \in RemainingRows(t, l)
          THEN [t[i] EXCEPT !.linkprecedence = "primary", !.linkedid = NullId]
          ELSE t[i]],
       [l EXCEPT !.pc = "delTarget"])}

\* the remaining secondaries are only counted for a log line
DelRemainingStmt(t, l) == {Cfg(t, [l EXCEPT !.pc = "delTarget"])}

\* UPDATE contact SET deletedat = NOW(), updatedat = NOW() WHERE id = $1
DelTargetStmt(t, clock, l) ==
  {Cfg([i \in 1..Len(t) |->
          IF t[i].id = l.id THEN [t[i] EXCEPT !.deletedat = clock, !.updatedat = clock]
          ELSE t[i]],
       Done(l, 200))}

\* req.query.confirm: "true", another string, or absent
ConfirmInputs == {"true", "false", UNDEF}

\* confirm !== "true" is answered 400
DeleteAllStart(confirm) ==
  LET l == [IdleLoc EXCEPT !.op = "deleteAll"]
  IN IF confirm # "true" THEN Done(l, 400) ELSE [l EXCEPT !.pc = "delAll"]

\* the bulk UPDATE without its WHERE clause
DelAllStmt_EveryRow(t, clock, l) ==
  {Cfg([i \in 1..Len(t) |-> [t[i] EXCEPT !.deletedat = clock, !.updatedat = clock]],
       [Done(l, 200) EXCEPT !.count = Len(t)])}

\* UPDATE contact SET deletedat = NOW(), updatedat = NOW() WHERE deletedat IS NULL
DelAllStmt(t, clock, l) ==
  {Cfg([i \in 1..Len(t) |->
          IF t[i].deletedat = NullTime
          THEN [t[i] EXCEPT !.deletedat = clock, !.updatedat = clock]
          ELSE t[i]],
       [Done(l, 200) EXCEPT !.count = Cardinality({i \in 1..Len(t) : t[i].deletedat = NullTime})])}

ListStart == [IdleLoc EXCEPT !.op = "list", !.pc = "listSelect"]

\* SELECT * FROM contact WHERE deletedat IS NULL ORDER BY id
ListStmt(t, l) ==
  {Cfg(t, [Done(l, 200) EXCEPT !.contacts = SelectSeq(t, IsActive)])}

----------------------------------------------------------------------------
(* Running a handler *)

\* the statement at l.pc and the code after it, up to the next statement
Step(t, clock, l) ==
  CASE l.pc = "fetch" -> FetchStmt(t, l)
    [] l.pc = "insertPrimary" -> InsertPrimaryStmt(t, clock, l)
    [] l.pc = "demote" -> DemoteStmt(t, clock, l)
    [] l.pc = "relink" -> RelinkStmt(t, clock, l)
    [] l.pc = "refetch" -> RefetchStmt(t, l)
    [] l.pc = "insertSecondary" -> InsertSecondaryStmt(t, clock, l)
    [] l.pc = "delSelect" -> DelSelectStmt(t, l)
    [] l.pc = "delCascade" -> DelCascadeStmt(t, clock, l)
    [] l.pc = "delRemaining" -> DelRemainingStmt(t, l)
    [] l.pc = "delTarget" -> DelTargetStmt(t, clock, l)
    [] l.pc = "delAll" -> DelAllStmt(t, clock, l)
    [] l.pc = "listSelect" -> ListStmt(t, l)
    [] OTHER -> {}

\* the statement throws (the store is unavailable): catch answers 500
Throw(t, l) == {Cfg(t, [Done(l, 500) EXCEPT !.thrown = TRUE])}

\* a whole handler, from l to its response, with no other request in between
RECURSIVE Run(_, _, _, _)
Run(t, clock, l, mayFail) ==
  IF l.pc = "done" THEN {Cfg(t, l)}
  ELSE UNION {Run(c.table, clock, c.loc, mayFail) :
                c \in Step(t, clock, l) \cup (IF mayFail THEN Throw(t, l) ELSE {})}

----------------------------------------------------------------------------------------------------------------------------------------
(* Requests served one at a time, the store available *)

Init ==
  /\ table = <<>>
  /\ now = 0
  /\ failed = "none"
  /\ loc = [p \in Procs |-> IdleLoc]

\* time passes: NOW() and CURRENT_TIMESTAMP of the store
Tick ==
  /\ now < MaxTime
  /\ now' = now + 1
  /\ UNCHANGED <<table, failed, loc>>

\* POST /identify, from the request to its response
Identify ==
  \E email \in EmailInputs, phone \in PhoneInputs :
    \E c \in Run(table, now, IdentifyStart(email, phone), FALSE) :
      /\ table' = c.table
      /\ failed' = "none"
      /\ UNCHANGED <<now, loc>>

\* DELETE /contacts/:id
DeleteOne ==
  \E isNumber \in BOOLEAN, id \in 1..MaxRecords :
    \E c \in Run(table, now, DeleteOneStart(isNumber, id), FALSE) :
      /\ table' = c.table
      /\ failed' = "none"
      /\ UNCHANGED <<now, loc>>

\* DELETE /contacts
DeleteAll ==
  \E confirm \in ConfirmInputs :
    \E c \in Run(table, now, DeleteAllStart(confirm), FALSE) :
      /\ table' = c.table
      /\ failed' = "none"
      /\ UNCHANGED <<now, loc>>

\* GET /contacts
ListContacts ==
  \E c \in Run(table, now, ListStart, FALSE) :
    /\ table' = c.table
    /\ failed' = "none"
    /\ UNCHANGED <<now, loc>>

Next == Identify \/ DeleteOne \/ DeleteAll \/ ListContacts \/ Tick

Spec == Init /\ [][Next]_vars

----------------------------------------------------------------------------
(* Resolve requests served one at a time, the store failing at any statement *)

IdentifyThrows ==
  \E email \in EmailInputs, phone \in PhoneInputs :
    \E c \in Run(table, now, IdentifyStart(email, phone), TRUE) :
      /\ c.loc.thrown
      /\ table' = c.table
      /\ failed' = "identify"
      /\ UNCHANGED <<now, loc>>

\* resolve requests only: the ones that complete and the ones that fail
NextFail == Identify \/ IdentifyThrows \/ Tick

SpecFail == Init /\ [][NextFail]_vars

----------------------------------------------------------------------------
(* Two requests served concurrently: each `await client.query` is one step, *)
(* and the statements of the two requests interleave.  The store holds what *)
(* up to MaxPrior earlier resolve requests, served one at a time, left; the *)
(* two requests overlap within one reading of the clock, and a resolve      *)
(* request carries both fields.                                             *)

MaxPrior == 3

RECURSIVE SeqReach(_)
SeqReach(k) ==
  IF k = 0 THEN {[table |-> <<>>, clock |-> 0]}
  ELSE LET prev == SeqReach(k - 1)
       IN prev \cup
          UNION {UNION {UNION {{[table |-> c.table, clock |-> cl] :
                                  c \in Run(s.table, cl, IdentifyStart(in[1], in[2]), FALSE)} :
                          in \in EmailInputs \X PhoneInputs} :
                   cl \in {s.clock, IF s.clock < MaxTime THEN s.clock + 1 ELSE s.clock}} :
             s \in prev}

InitConc ==
  /\ \E s \in SeqReach(MaxPrior) : table = s.table /\ now = s.clock
  /\ failed = "none"
  /\ loc = [p \in Procs |-> IdleLoc]

StartIdentify(p) ==
  /\ loc[p].pc = "idle"
  /\ \E email \in Emails, phone \in Phones :
       loc' = [loc EXCEPT ![p] = IdentifyStart(email, phone)]
  /\ UNCHANGED <<table, now, failed>>

StartDeleteOne(p) ==
  /\ loc[p].pc = "idle"
  /\ \E id \in 1..MaxRecords : loc' = [loc EXCEPT ![p] = DeleteOneStart(TRUE, id)]
  /\ UNCHANGED <<table, now, failed>>

Fetch(p) ==
  /\ loc[p].pc = "fetch"
  /\ \E c \in FetchStmt(table, loc[p]) :
       table' = c.table /\ loc' = [loc EXCEPT ![p] = c.loc]
  /\ UNCHANGED <<now, failed>>

InsertPrimary(p) ==
  /\ loc[p].pc = "insertPrimary"
  /\ \E c \in InsertPrimaryStmt(table, now, loc[p]) :
       table' = c.table /\ loc' = [loc EXCEPT ![p] = c.loc]
  /\ UNCHANGED <<now, failed>>

Demote(p) ==
  /\ loc[p].pc = "demote"
  /\ \E c \in DemoteStmt(table, now, loc[p]) :
       table' = c.table /\ loc' = [loc EXCEPT ![p] = c.loc]
  /\ UNCHANGED <<now, failed>>

Relink(p) ==
  /\ loc[p].pc = "relink"
  /\ \E c \in RelinkStmt(table, now, loc[p]) :
       table' = c.table /\ loc' = [loc EXCEPT ![p] = c.loc]
  /\ UNCHANGED <<now, failed>>

Refetch(p) ==
  /\ loc[p].pc = "refetch"
  /\ \E c \in RefetchStmt(table, loc[p]) :
       table' = c.table /\ loc' = [loc EXCEPT ![p] = c.loc]
  /\ UNCHANGED <<now, failed>>

InsertSecondary(p) ==
  /\ loc[p].pc = "insertSecondary"
  /\ \E c \in InsertSecondaryStmt(table, now, loc[p]) :
       table' = c.table /\ loc' = [loc EXCEPT ![p] = c.loc]
  /\ UNCHANGED <<now, failed>>

DelSelect(p) ==
  /\ loc[p].pc = "delSelect"
  /\ \E c \in DelSelectStmt(table, loc[p]) :
       table' = c.table /\ loc' = [loc EXCEPT ![p] = c.loc]
  /\ UNCHANGED <<now, failed>>

DelCascade(p) ==
  /\ loc[p].pc = "delCascade"
  /\ \E c \in DelCascadeStmt(table, now, loc[p]) :
       table' = c.table /\ loc' = [loc EXCEPT ![p] = c.loc]
  /\ UNCHANGED <<now, failed>>

DelRemaining(p) ==
  /\ loc[p].pc = "delRemaining"
  /\ \E c \in DelRemainingStmt(table, loc[p]) :
       table' = c.table /\ loc' = [loc EXCEPT ![p] = c.loc]
  /\ UNCHANGED <<now, failed>>

DelTarget(p) ==
  /\ loc[p].pc = "delTarget"
  /\ \E c \in DelTargetStmt(table, now, loc[p]) :
       table' = c.table /\ loc' = [loc EXCEPT ![p] = c.loc]
  /\ UNCHANGED <<now, failed>>

NextConc ==
  \/ \E p \in Procs :
       \/ StartIdentify(p) \/ StartDeleteOne(p)
       \/ Fetch(p) \/ InsertPrimary(p) \/ Demote(p) \/ Relink(p) \/ Refetch(p)
       \/ InsertSecondary(p)
       \/ DelSelect(p) \/ DelCascade(p) \/ DelRemaining(p) \/ DelTarget(p)

SpecConc == InitConc /\ [][NextConc]_vars

----------------------------------------------------------------------------
(* Two delete requests served concurrently while time passes: the store is *)
(* as in InitConc, each `await client.query` of a delete handler is one    *)
(* step, and the clock may advance between two statements.                 *)

StartDeleteAll(p) ==
  /\ loc[p].pc = "idle"
  /\ \E confirm \in ConfirmInputs : loc' = [loc EXCEPT ![p] = DeleteAllStart(confirm)]
  /\ UNCHANGED <<table, now, failed>>

DelAll(p) ==
  /\ loc[p].pc = "delAll"
  /\ \E c \in DelAllStmt(table, now, loc[p]) :
       table' = c.table /\ loc' = [loc EXCEPT ![p] = c.loc]
  /\ UNCHANGED <<now, failed>>

NextDelete ==
  \/ Tick
  \/ \E p \in Procs :
       \/ StartDeleteOne(p) \/ StartDeleteAll(p)
       \/ DelSelect(p) \/ DelCascade(p) \/ DelRemaining(p) \/ DelTarget(p)
       \/ DelAll(p)

SpecDelete == InitConc /\ [][NextDelete]_vars

----------------------------------------------------------------------------
(* The outcomes of one resolve request served in the current state *)

Outcomes(email, phone) == Run(table, now, IdentifyStart(email, phone), FALSE)

Present(v) == v # UNDEF

Ids(t) == 1..Len(t)

ActiveIds(t) == {i \in Ids(t) : t[i].deletedat = NullTime}

\* the primary a record belongs to: itself, or the record it links to
PrimaryOf(r) == IF r.linkprecedence = "primary" THEN r.id ELSE r.linkedid

\* the active primaries an input pair matches by email or by phone
MatchedPrimaries(t, email, phone) ==
  {i \in ActiveIds(t) :
     /\ t[i].linkprecedence = "primary"
     /\ (Present(email) /\ t[i].email = email) \/ (Present(phone) /\ t[i].phonenumber = phone)}

----------------------------------------------------------------------------
----------------------------------------------------------------------------
(* C2 -- Linking: while no record has been deleted, any two active records *)
(* that share a non-null email or a non-null phone number have the same    *)
(* primary.                                                                *)
SharesValue(a, b) ==
  \/ a.email # NULL /\ a.email = b.email
  \/ a.phonenumber # NULL /\ a.phonenumber = b.phonenumber

C2_SharedValueSameCluster ==
  ActiveIds(table) = Ids(table) =>
    \A i, j \in Ids(table) :
      SharesValue(table[i], table[j]) => PrimaryOf(table[i]) = PrimaryOf(table[j])

\* an input pair that matches a secondary of one cluster (not its primary) and the
\* primary of another cluster is served, in a store where that secondary shares a
\* value with its own primary
C2_Witness ==
  /\ ActiveIds(table) = Ids(table)
  /\ \E email \in Emails, phone \in Phones :
       \E x, s, y \in Ids(table) :
         /\ table[x].linkprecedence = "primary" /\ table[y].linkprecedence = "primary" /\ x # y
         /\ table[s].linkedid = x /\ SharesValue(table[s], table[x])
         /\ table[s].phonenumber = phone /\ table[y].email = email
         /\ table[x].phonenumber # phone /\ table[x].email # email
         /\ \E c \in Outcomes(email, phone) : c.loc.status = 200

----------------------------------------------------------------------------
(* C10 -- New identity: when at least one field is present and no active   *)
(* record carries the input email or the input phone, resolve appends      *)
(* exactly one record, a primary without link that carries the input pair, *)
(* changes no existing record, and returns the new id, the present email,  *)
(* the present phone and no secondary.                                     *)
OneIfPresent(v) == IF Present(v) THEN <<v>> ELSE <<>>

NoActiveMatch(t, email, phone) ==
  \A i \in ActiveIds(t) :
    /\ ~(Present(email) /\ t[i].email = email)
    /\ ~(Present(phone) /\ t[i].phonenumber = phone)

C10_NewIdentity ==
  \A email \in EmailInputs, phone \in PhoneInputs :
    (Present(email) \/ Present(phone)) /\ NoActiveMatch(table, email, phone) =>
      \A c \in Outcomes(email, phone) :
        LET t2 == c.table
            n == Len(table) + 1
        IN /\ c.loc.status = 200
           /\ Len(t2) = n
           /\ \A i \in Ids(table) : t2[i] = table[i]
           /\ t2[n].id = n
           /\ t2[n].linkprecedence = "primary"
           /\ t2[n].linkedid = NullId
           /\ t2[n].deletedat = NullTime
           /\ t2[n].email = (IF Present(email) THEN email ELSE NULL)
           /\ t2[n].phonenumber = (IF Present(phone) THEN phone ELSE NULL)
           /\ c.loc.view = [primaryContactId |-> n, emails |-> OneIfPresent(email),
                            phoneNumbers |-> OneIfPresent(phone),
                            secondaryContactIds |-> <<>>]

\* a new identity is created although a soft-deleted record carries the same email,
\* and another, unrelated, record is active
C10_Witness ==
  \E email \in Emails, phone \in PhoneInputs :
    /\ NoActiveMatch(table, email, phone)
    /\ \E i \in Ids(table) : table[i].deletedat # NullTime /\ table[i].email = email
    /\ ActiveIds(table) # {}
    /\ \E c \in Outcomes(email, phone) : Len(c.table) = Len(table) + 1

----------------------------------------------------------------------------
(* C3 -- Full cluster returned: every successful resolve returns as        *)
(* secondaryContactIds exactly the active secondaries linked to the        *)
(* returned primary, and as emails and phoneNumbers exactly the non-null   *)
(* emails and phones of that primary and those secondaries.                *)
ClusterOf(t, pid) ==
  {pid} \cup {i \in ActiveIds(t) : t[i].linkprecedence = "secondary" /\ t[i].linkedid = pid}

C3_FullClusterReturned ==
  \A email \in EmailInputs, phone \in PhoneInputs :
    \A c \in Outcomes(email, phone) :
      c.loc.status = 200 =>
        LET t2 == c.table
            v == c.loc.view
            cluster == ClusterOf(t2, v.primaryContactId)
        IN /\ Range(v.secondaryContactIds) = cluster \ {v.primaryContactId}
           /\ Range(v.emails) = {t2[i].email : i \in cluster} \ {NULL}
           /\ Range(v.phoneNumbers) = {t2[i].phonenumber : i \in cluster} \ {NULL}

----------------------------------------------------------------------------
(* C4 -- Idempotence: the same resolve request served twice in succession  *)
(* returns the same primaryContactId, the same emails, phoneNumbers and    *)
(* secondaryContactIds both times, and the second request inserts nothing. *)
SameView(v, w) ==
  /\ v.primaryContactId = w.primaryContactId
  /\ Range(v.emails) = Range(w.emails)
  /\ Range(v.phoneNumbers) = Range(w.phoneNumbers)
  /\ Range(v.secondaryContactIds) = Range(w.secondaryContactIds)

C4_Idempotent ==
  \A email \in EmailInputs, phone \in PhoneInputs :
    \A c1 \in Outcomes(email, phone) :
      c1.loc.status = 200 =>
        \A c2 \in Run(c1.table, now, IdentifyStart(email, phone), FALSE) :
          /\ c2.loc.status = 200
          /\ SameView(c1.loc.view, c2.loc.view)
          /\ Len(c2.table) = Len(c1.table)

----------------------------------------------------------------------------
(* C5 -- Soft-deleted records are invisible to resolve: no deleted record  *)
(* is a candidate or counts as carrying the input email or phone, and the  *)
(* returned view names no deleted record and no value that only deleted    *)
(* records carry.                                                          *)
C5_DeletedInvisible ==
  \A email \in EmailInputs, phone \in PhoneInputs :
    /\ \A r \in CandidateRows(table, email, phone) : r.deletedat = NullTime
    /\ \A c \in Outcomes(email, phone) :
         c.loc.status = 200 =>
           LET t2 == c.table
               v == c.loc.view
           IN /\ v.primaryContactId \in ActiveIds(t2)
              /\ Range(v.secondaryContactIds) \subseteq ActiveIds(t2)
              /\ Range(v.emails) \subseteq {t2[i].email : i \in ActiveIds(t2)}
              /\ Range(v.phoneNumbers) \subseteq {t2[i].phonenumber : i \in ActiveIds(t2)}

----------------------------------------------------------------------------
(* C6 -- Single-field input: a resolve that supplies only one field        *)
(* matches on that field only; when the supplied value is already carried  *)
(* by a matched record no record is inserted; an inserted record stores    *)
(* NULL for the omitted field.                                             *)
SingleFieldInputs ==
  {<<e, UNDEF>> : e \in Emails} \cup {<<UNDEF, p>> : p \in Phones}

CarriesSupplied(r, in) ==
  (Present(in[1]) /\ r.email = in[1]) \/ (Present(in[2]) /\ r.phonenumber = in[2])

C6_SingleField ==
  \A in \in SingleFieldInputs :
    /\ \A r \in CandidateRows(table, in[1], in[2]) : CarriesSupplied(r, in)
    /\ \A c \in Outcomes(in[1], in[2]) :
         LET t2 == c.table
         IN /\ (\E i \in ActiveIds(table) : CarriesSupplied(table[i], in)) => Len(t2) = Len(table)
            /\ \A i \in Ids(t2) \ Ids(table) :
                 /\ ~Present(in[1]) => t2[i].email = NULL
                 /\ ~Present(in[2]) => t2[i].phonenumber = NULL

----------------------------------------------------------------------------
(* C7 -- Atomic resolution on store failure: a resolve request in which a  *)
(* store statement fails leaves the table exactly as it was before the     *)
(* request.                                                                *)
C7_FailedResolveChangesNothing == [][failed' = "identify" => table' = table]_vars

----------------------------------------------------------------------------
(* C8 -- Isolation: no statement of a request reads records of a cluster   *)
(* that another request has half merged (a primary demoted, the records    *)
(* that link to it not yet relinked) or half deleted (the secondaries of a *)
(* primary soft-deleted by the cascade, the primary still active).         *)
ReadPcs == {"fetch", "refetch", "delSelect", "delRemaining"}

\* the ids of the rows the SELECT at l.pc returns
RowsRead(t, l) ==
  CASE l.pc = "fetch" -> {r.id : r \in CandidateRows(t, l.email, l.phone)}
    [] l.pc = "refetch" -> {r.id : r \in ClusterRows(t, l.finalPrimary)}
    [] l.pc = "delSelect" -> {i \in ActiveIds(t) : i = l.id}
    [] l.pc = "delRemaining" -> RemainingRows(t, l)
    [] OTHER -> {}

\* the demoted primary and the records still linking to it, between the two UPDATEs
HalfMerged(t, l) ==
  IF l.pc = "relink" /\ \E j \in Ids(t) : t[j].linkedid = Head(l.toDemote)
  THEN {Head(l.toDemote)} \cup {j \in Ids(t) : t[j].linkedid = Head(l.toDemote)}
  ELSE {}

\* the primary and its soft-deleted secondaries, between the cascade and the last UPDATE
HalfDeleted(t, l) ==
  IF l.op = "deleteOne" /\ l.pc = "delTarget" /\ l.count > 0 /\ t[l.id].deletedat = NullTime
  THEN {l.id} \cup {j \in Ids(t) : t[j].linkedid = l.id /\ t[j].deletedat # NullTime}
  ELSE {}

C8_IsolatedReads ==
  [][\A p \in Procs :
       (loc[p].pc \in ReadPcs /\ loc'[p] # loc[p]) =>
         \A q \in Procs \ {p} :
           RowsRead(table, loc[p]) \cap (HalfMerged(table, loc[q]) \cup HalfDeleted(table, loc[q])) = {}]_vars

----------------------------------------------------------------------------
(* C9 -- No competing primaries: when two concurrent resolve requests for  *)
(* the same pair have both completed and the only active records that      *)
(* carry the email or the phone are primaries carrying exactly that pair   *)
(* (no other record matched), there is exactly one such primary.           *)
PairPrimaries(t, email, phone) ==
  {i \in ActiveIds(t) :
     t[i].linkprecedence = "primary" /\ t[i].email = email /\ t[i].phonenumber = phone}

C9_NoCompetingPrimaries ==
  LET a == loc[1]
      b == loc[2]
  IN (/\ a.pc = "done" /\ b.pc = "done"
      /\ a.op = "identify" /\ b.op = "identify"
      /\ a.status = 200 /\ b.status = 200
      /\ a.email = b.email /\ a.phone = b.phone
      /\ \A i \in ActiveIds(table) :
           (table[i].email = a.email \/ table[i].phonenumber = a.phone) =>
             i \in PairPrimaries(table, a.email, a.phone))
     => Cardinality(PairPrimaries(table, a.email, a.phone)) = 1

----------------------------------------------------------------------------
(* C11 -- Alias attach: when both fields are present, the active records   *)
(* matching the input all belong to one cluster with an active primary,    *)
(* and exactly one of the two input values is carried by no active record  *)
(* of that cluster, resolve answers 200, appends exactly one record, a     *)
(* secondary carrying the input pair and linked to the cluster's primary,  *)
(* and the view holds the input values, each once, and the values of the   *)
(* records that matched.                                                   *)
MatchedClusters(t, email, phone) == {PrimaryOf(r) : r \in CandidateRows(t, email, phone)}

CarriedEmails(t, pid) == {t[i].email : i \in ClusterOf(t, pid)} \ {NULL}

CarriedPhones(t, pid) == {t[i].phonenumber : i \in ClusterOf(t, pid)} \ {NULL}

Occurrences(s, v) == Cardinality({i \in 1..Len(s) : s[i] = v})

\* the input attaches one new value to the cluster of primary pid
AliasCase(t, email, phone, pid) ==
  /\ MatchedClusters(t, email, phone) = {pid}
  /\ pid \in ActiveIds(t) /\ t[pid].linkprecedence = "primary"
  /\ (email \in CarriedEmails(t, pid)) # (phone \in CarriedPhones(t, pid))

C11_AliasAttach ==
  \A email \in Emails, phone \in Phones, pid \in Ids(table) :
    AliasCase(table, email, phone, pid) =>
      \A c \in Outcomes(email, phone) :
        LET t2 == c.table
            n == Len(table) + 1
            v == c.loc.view
        IN /\ c.loc.status = 200
           /\ Len(t2) = n
           /\ \A i \in Ids(table) : t2[i] = table[i]
           /\ t2[n].linkprecedence = "secondary"
           /\ t2[n].linkedid = pid
           /\ t2[n].email = email /\ t2[n].phonenumber = phone
           /\ t2[n].deletedat = NullTime
           /\ v.primaryContactId = pid
           /\ Occurrences(v.emails, email) = 1
           /\ Occurrences(v.phoneNumbers, phone) = 1
           /\ \A r \in CandidateRows(table, email, phone) :
                /\ r.email # NULL => Occurrences(v.emails, r.email) = 1
                /\ r.phonenumber # NULL => Occurrences(v.phoneNumbers, r.phonenumber) = 1

----------------------------------------------------------------------------
(* C12 -- No-op dedup: when both fields are present and each of the two    *)
(* input values is carried by an active record of the clusters the input   *)
(* matches (one record carrying both, or two records carrying one each),   *)
(* resolve inserts no record.                                              *)
ResolvedCluster(t, email, phone) ==
  {i \in ActiveIds(t) : PrimaryOf(t[i]) \in MatchedClusters(t, email, phone)}

BothCarried(t, email, phone) ==
  /\ \E i \in ResolvedCluster(t, email, phone) : t[i].email = email
  /\ \E j \in ResolvedCluster(t, email, phone) : t[j].phonenumber = phone

C12_NoOpDedup ==
  \A email \in Emails, phone \in Phones :
    BothCarried(table, email, phone) =>
      \A c \in Outcomes(email, phone) : Len(c.table) = Len(table)

\* the two values are carried by different records, no record carries the pair, there
\* is room for another record, and the request is answered with a view
C12_Witness ==
  \E email \in Emails, phone \in Phones :
    /\ BothCarried(table, email, phone)
    /\ \A i \in Ids(table) : ~(table[i].email = email /\ table[i].phonenumber = phone)
    /\ Len(table) < MaxRecords
    /\ \E c \in Outcomes(email, phone) : c.loc.status = 200 /\ Len(c.table) = Len(table)

----------------------------------------------------------------------------
(* C13 -- Cascade delete: deleteOne on an active primary is answered 200,  *)
(* sets deleted-at on that record and on every active record linked to it, *)
(* and changes nothing else; GET /contacts then lists none of them; and in *)
(* every state, a resolve request has the same outcomes (status, view, and *)
(* every other record) as in the store where a deleted primary and the     *)
(* deleted records linked to it carry no value and no link.                *)
LinkedActive(t, id) == {i \in ActiveIds(t) : t[i].linkedid = id}

DeletedCluster(t, x) == {x} \cup {i \in Ids(t) \ ActiveIds(t) : t[i].linkedid = x}

\* the store in which the records of D hold nothing a request could match or follow
Erased(t, D) ==
  [i \in 1..Len(t) |->
     IF i \in D
     THEN [t[i] EXCEPT !.email = NULL, !.phonenumber = NULL, !.linkedid = NullId,
                       !.linkprecedence = "none"]
     ELSE t[i]]

\* what a resolve request answers and what it leaves in the records outside D
ResolveEffects(t, email, phone, D) ==
  {[status |-> c.loc.status, view |-> c.loc.view, size |-> Len(c.table),
    rest |-> [i \in Ids(c.table) \ D |-> c.table[i]]] :
     c \in Run(t, now, IdentifyStart(email, phone), FALSE)}

SoftDeleted(before, after) ==
  /\ after.deletedat # NullTime
  /\ after = [before EXCEPT !.deletedat = after.deletedat, !.updatedat = after.updatedat]

C13_CascadeDelete ==
  /\ \A id \in ActiveIds(table) :
       table[id].linkprecedence = "primary" =>
         \A c \in Run(table, now, DeleteOneStart(TRUE, id), FALSE) :
           LET t2 == c.table
               gone == {id} \cup LinkedActive(table, id)
           IN /\ c.loc.status = 200
              /\ Len(t2) = Len(table)
              /\ \A i \in gone : SoftDeleted(table[i], t2[i])
              /\ \A i \in Ids(table) \ gone : t2[i] = table[i]
              /\ \A g \in Run(t2, now, ListStart, FALSE) :
                   \A k \in 1..Len(g.loc.contacts) : g.loc.contacts[k].id \notin gone
  /\ \A x \in Ids(table) \ ActiveIds(table) :
       table[x].linkprecedence = "primary" =>
         \A email \in EmailInputs, phone \in PhoneInputs :
           ResolveEffects(table, email, phone, DeletedCluster(table, x))
             = ResolveEffects(Erased(table, DeletedCluster(table, x)), email, phone,
                              DeletedCluster(table, x))

\* a primary and its secondary have been soft-deleted together, and a later resolve
\* with the secondary's email and the primary's phone has created a new identity
C13_Witness ==
  \E x, s, a \in Ids(table) :
    /\ table[x].linkprecedence = "primary" /\ table[x].deletedat # NullTime
    /\ table[s].linkedid = x /\ table[s].deletedat = table[x].deletedat
    /\ a \in ActiveIds(table) /\ table[a].linkprecedence = "primary"
    /\ table[a].email = table[s].email /\ table[a].email # table[x].email
    /\ table[a].phonenumber = table[x].phonenumber

----------------------------------------------------------------------------
(* C14 -- Secondary delete: deleteOne on an active secondary is answered   *)
(* 200 and sets deleted-at (and updated-at) on that record only; every     *)
(* other record is left as it was, so the primary stays primary and no     *)
(* secondary is promoted.                                                  *)
C14_SecondaryDeleteOnly ==
  \A id \in ActiveIds(table) :
    table[id].linkprecedence = "secondary" =>
      \A c \in Run(table, now, DeleteOneStart(TRUE, id), FALSE) :
        LET t2 == c.table
        IN /\ c.loc.status = 200
           /\ Len(t2) = Len(table)
           /\ SoftDeleted(table[id], t2[id])
           /\ \A i \in Ids(table) \ {id} : t2[i] = table[i]

\* a secondary has been deleted alone: its primary and another secondary of that
\* primary are still active
C14_Witness ==
  \E x, s, r \in Ids(table) :
    /\ x \in ActiveIds(table) /\ table[x].linkprecedence = "primary"
    /\ table[s].linkprecedence = "secondary" /\ table[s].linkedid = x
    /\ table[s].deletedat # NullTime
    /\ r \in ActiveIds(table) /\ table[r].linkprecedence = "secondary" /\ table[r].linkedid = x

----------------------------------------------------------------------------
(* C15 -- Bulk delete gate: deleteAll whose confirm parameter is not the   *)
(* string "true" (absent included) is answered 400 and changes no record;  *)
(* with confirm=true it is answered 200, sets deleted-at on every record   *)
(* that was active, leaves every already-deleted record as it was, and     *)
(* reports as count the number of records that were active.                *)
C15_BulkDeleteGate ==
  \A confirm \in ConfirmInputs :
    \A c \in Run(table, now, DeleteAllStart(confirm), FALSE) :
      LET t2 == c.table
      IN IF confirm # "true"
         THEN c.loc.status = 400 /\ t2 = table
         ELSE /\ c.loc.status = 200
              /\ Len(t2) = Len(table)
              /\ \A i \in ActiveIds(table) : SoftDeleted(table[i], t2[i])
              /\ \A i \in Ids(table) \ ActiveIds(table) : t2[i] = table[i]
              /\ c.loc.count = Cardinality(ActiveIds(table))

\* no record is active: two unlinked primaries were deleted at the same, later, time
\* and another record had been deleted before
C15_Witness ==
  /\ ActiveIds(table) = {}
  /\ \E i, j, k \in Ids(table) :
       /\ i # j
       /\ table[i].linkprecedence = "primary" /\ table[j].linkprecedence = "primary"
       /\ table[i].deletedat = table[j].deletedat
       /\ table[k].deletedat < table[i].deletedat

----------------------------------------------------------------------------
(* C16 -- Tie-break: when the active primaries a resolve request matches   *)
(* are two or more and all have the same created-at, the one with the      *)
(* lowest id is the primary after the request and the one the view names,  *)
(* in whatever order the candidate rows were returned.                     *)
LowestId(S) == CHOOSE i \in S : \A j \in S : i <= j

C16_TieBreakLowestId ==
  \A email \in EmailInputs, phone \in PhoneInputs :
    LET matched == MatchedPrimaries(table, email, phone)
    IN (/\ Cardinality(matched) >= 2
        /\ \A i, j \in matched : table[i].createdat = table[j].createdat) =>
         \A c \in Outcomes(email, phone) :
           /\ c.table[LowestId(matched)].linkprecedence = "primary"
           /\ c.loc.view.primaryContactId = LowestId(matched)

----------------------------------------------------------------------------
(* C17 -- Projection order: in every view a resolve request returns, the   *)
(* primary's email, when it has one, is the first of emails, and its phone *)
(* the first of phoneNumbers; the other values follow in ascending         *)
(* created-at of the first secondary of the view that carries them; no     *)
(* value is listed twice and none is null; in whatever order the rows were *)
(* returned.                                                               *)
NoRepeats(s) == \A i, j \in 1..Len(s) : s[i] = s[j] => i = j

\* created-at of the earliest secondary among ids for which carries holds of value v
EarliestCarrier(t, ids, v, field) ==
  LET carriers == {i \in ids : IF field = "email" THEN t[i].email = v ELSE t[i].phonenumber = v}
  IN IF carriers = {} THEN MaxTime + 1
     ELSE CHOOSE m \in {t[i].createdat : i \in carriers} :
            \A i \in carriers : m <= t[i].createdat

\* the list s of one field, for the primary value first and the secondaries ids
Projected(t, s, first, ids, field) ==
  /\ NoRepeats(s)
  /\ \A k \in 1..Len(s) : s[k] # NULL /\ s[k] # UNDEF
  /\ first # NULL => (Len(s) >= 1 /\ s[1] = first)
  /\ \A a, b \in 1..Len(s) :
       (a < b /\ s[a] # first /\ s[b] # first) =>
         EarliestCarrier(t, ids, s[a], field) <= EarliestCarrier(t, ids, s[b], field)

C17_ProjectionOrder ==
  \A email \in EmailInputs, phone \in PhoneInputs :
    \A c \in Outcomes(email, phone) :
      c.loc.status = 200 =>
        LET t2 == c.table
            v == c.loc.view
            p == t2[v.primaryContactId]
            ids == Range(v.secondaryContactIds)
        IN /\ Projected(t2, v.emails, p.email, ids, "email")
           /\ Projected(t2, v.phoneNumbers, p.phonenumber, ids, "phone")

----------------------------------------------------------------------------
(* C18 -- Link structure: after any sequence of completed resolve,         *)
(* deleteOne and deleteAll requests, a record has a linked id if and only  *)
(* if it is secondary, and the record a secondary links to exists and is   *)
(* primary.                                                                *)
C18_LinkStructure ==
  \A i \in Ids(table) :
    /\ table[i].linkprecedence \in {"primary", "secondary"}
    /\ (table[i].linkedid # NullId) <=> (table[i].linkprecedence = "secondary")
    /\ table[i].linkprecedence = "secondary" =>
         /\ table[i].linkedid \in Ids(table)
         /\ table[table[i].linkedid].linkprecedence = "primary"

\* a primary with two secondaries that were both primaries once (neither shares a value
\* with any record, so neither was inserted as a secondary): both have been demoted,
\* directly under this primary or under one another first and then relinked
C18_Witness ==
  \E z, x, y \in Ids(table) :
    /\ x # y
    /\ table[z].linkprecedence = "primary"
    /\ table[x].linkprecedence = "secondary" /\ table[x].linkedid = z
    /\ table[y].linkprecedence = "secondary" /\ table[y].linkedid = z
    /\ ~SharesValue(table[x], table[y])
    /\ ~SharesValue(table[x], table[z])
    /\ ~SharesValue(table[y], table[z])

----------------------------------------------------------------------------
----------------------------------------------------------------------------
(* C20 -- Record immutability: no step of a resolve, deleteOne or          *)
(* deleteAll request removes a record, changes the id, email, phone or     *)
(* created-at of an existing record, or clears or changes a deleted-at     *)
(* that is already set.                                                    *)
Immutable(before, after) ==
  /\ Len(after) >= Len(before)
  /\ \A i \in Ids(before) :
       /\ after[i].id = before[i].id
       /\ after[i].email = before[i].email
       /\ after[i].phonenumber = before[i].phonenumber
       /\ after[i].createdat = before[i].createdat
       /\ before[i].deletedat # NullTime => after[i].deletedat = before[i].deletedat

C20_RecordsImmutable == [][Immutable(table, table')]_vars

----------------------------------------------------------------------------
(* C21 -- Resolve always finds a primary: in every store reachable by      *)
(* completed resolve and delete requests, a resolve request with at least  *)
(* one field present, the store available, is answered 200 with a          *)
(* primaryContactId that is the id of an active primary, also when every   *)
(* candidate row is a secondary.                                           *)
C21_ResolveFindsPrimary ==
  \A email \in EmailInputs, phone \in PhoneInputs :
    (Present(email) \/ Present(phone)) =>
      \A c \in Outcomes(email, phone) :
        /\ c.loc.status = 200
        /\ c.loc.view.primaryContactId \in ActiveIds(c.table)
        /\ c.table[c.loc.view.primaryContactId].linkprecedence = "primary"

----------------------------------------------------------------------------
(* C22 -- Concurrent merges converge: when two resolve requests whose      *)
(* store statements interleaved have both completed, each having set out   *)
(* to merge two or more primaries and the two sets having a primary in     *)
(* common, no secondary links to a secondary and every active secondary    *)
(* links to an active primary.                                             *)
MergedBoth(a, b) ==
  /\ a.pc = "done" /\ b.pc = "done"
  /\ a.op = "identify" /\ b.op = "identify"
  /\ Len(a.primaries) > 1 /\ Len(b.primaries) > 1
  /\ Range(a.primaries) \cap Range(b.primaries) # {}

C22_ConcurrentMergesConverge ==
  MergedBoth(loc[1], loc[2]) =>
    \A i \in Ids(table) :
      table[i].linkprecedence = "secondary" =>
        /\ table[i].linkedid \in Ids(table)
        /\ table[table[i].linkedid].linkprecedence # "secondary"
        /\ i \in ActiveIds(table) =>
             /\ table[i].linkedid \in ActiveIds(table)
             /\ table[table[i].linkedid].linkprecedence = "primary"

====
